---- MODULE Spec2Model ----
(***************************************************************************)
(* Density clustering of sentence vectors (dbscan.js): the all-pairs       *)
(* similarity matrix, with its WebGPU strategy and CPU fallback, and the   *)
(* DBSCAN scan-and-expand loop that consumes it.                           *)
(*                                                                         *)
(* JavaScript arrays are functions over 0..length-1, so indices are the    *)
(* program's own; queues and result lists are sequences of such indices.   *)
(***************************************************************************)
EXTENDS Integers, Sequences, FiniteSets, TLC

\* ------------------------------------------------------------------ bounds
\* Largest number of points handed to one dbscan call.
MaxN == 4
\* Largest minPts handed to dbscan.
MaxMinPts == 3
\* Largest number of points handed to computeDistanceMatrix on its own.
MaxKernelN == 17
\* Largest number of points handed to each of two overlapping dbscan calls.
MaxPairN == 3
\* Largest number of lines in one compute_embeddings request.
MaxTexts == 3
\* Largest number of lines in each of two successive requests.
MaxShortTexts == 2
\* Largest number of lines in the page's textarea.
MaxPageLines == 2
\* Largest number of points of a dbscan call followed to its return.
MaxFairN == 3

\* The vectors a point is drawn from (all of dimension 2).
Vectors == { <<4, 0>>, <<0, 3>>, <<1, 1>>, <<0, -3>>, <<-4, 0>> }
\* The similarity thresholds (epsilon) handed to dbscan.
Epsilons == { 3, 4 }
\* The two dbscan invocations the model follows.
Runs == { 1, 2 }

\* ------------------------------------------------------------ JS values
\* assignments[] is filled with null; -1 marks noise, k >= 0 a cluster id.
Null == -2
NoiseMark == -1
\* const workgroupSize = 256 / @workgroup_size(256)
workgroupSize == 256

VARIABLES
    points,            \* points[r]: the vectors of invocation r, 0-based
    epsilon,           \* epsilon[r]: similarity threshold
    minPts,            \* minPts[r]
    pc,                \* pc[r]: where invocation r is
    similarityMatrix,  \* similarityMatrix[r][i][j]
    visited,           \* visited[r]: Set of indices
    noise,             \* noise[r]: Set of indices, in insertion order
    assignments,       \* assignments[r][i]: Null, NoiseMark or cluster id
    seeds,             \* seeds[r]: queue of expandCluster
    scanI,             \* scanI[r]: i of the outer for loop
    clusterId,         \* clusterId[r]
    result,            \* result[r]: what dbscan returned
    consoleLog         \* consoleLog[r]: what invocation r wrote with console.log

\* The worker (worker.js): its module-level state, and per request q the
\* locals of the message listener that handles it.
VARIABLES
    PipelineSingleton, \* the static fields instance, device, useGPU
    giPc,              \* giPc[c]: where the getInstance call of caller c is
    pipelineLog,       \* how often pipeline(...) was invoked and resolved
    vectorCache,       \* the Map from text to vector
    lastTexts,         \* null, or the texts of the last embedded request
    lastEmbeddings,    \* null, or their vectors
    posted,            \* what the worker has sent with self.postMessage
    extractorCalls,    \* the texts extractor(...) was called with, in order
    request,           \* request[q]: event.data.data of request q
    wpc,               \* wpc[q]: where the listener handling request q is
    texts,             \* texts[q]: the non-blank texts
    embeddings,        \* embeddings[q]: index -> vector, as far as filled
    uniqueI            \* uniqueI[q]: i of the loop of computeEmbeddings

\* The page (Home): the state it keeps of the worker, and the two message
\* channels between them.
VARIABLES
    modelStatus,       \* 'loading' or 'ready'
    clusterStatus,     \* null, 'computing', 'clustering', 'complete' or 'error'
    delivered,         \* how many of posted the page's listener has handled
    inbox              \* requests the page has sent and the worker not yet received

pageVars == << modelStatus, clusterStatus, delivered, inbox >>

workerVars == << PipelineSingleton, giPc, pipelineLog, vectorCache, lastTexts,
                 lastEmbeddings, posted, extractorCalls, request, wpc, texts,
                 embeddings, uniqueI >>

vars == << points, epsilon, minPts, pc, similarityMatrix, visited, noise,
           assignments, seeds, scanI, clusterId, result, consoleLog,
           PipelineSingleton, giPc, pipelineLog, vectorCache, lastTexts,
           lastEmbeddings, posted, extractorCalls, request, wpc, texts,
           embeddings, uniqueI, modelStatus, clusterStatus, delivered, inbox >>

\* What a dbscan call leaves alone: the worker around it and the page.
hostVars == << workerVars, pageVars >>

\* -------------------------------------------------------------- helpers
Indices(n) == 0 .. (n - 1)

NumPoints(pts) == Cardinality(DOMAIN pts)

RECURSIVE DotUpTo(_, _, _)
DotUpTo(point1, point2, k) ==
    IF k = 0 THEN 0
    ELSE DotUpTo(point1, point2, k - 1) + point1[k] * point2[k]

\* Faulty variant of vectorSimilarity: both factors are read from point1.
vectorSimilarityOneSided(point1, point2) == DotUpTo(point1, point1, Len(point1))

\* function vectorSimilarity(point1, point2): the dot product.
vectorSimilarity(point1, point2) == DotUpTo(point1, point2, Len(point1))

\* function computeDistanceMatrixCPU(points)
computeDistanceMatrixCPU(pts) ==
    [i \in DOMAIN pts |-> [j \in DOMAIN pts |-> vectorSimilarity(pts[i], pts[j])]]

\* ------------------------------------------------- accelerated strategy
\* new Float32Array(points.flat()): row i occupies [i*vectorSize, (i+1)*vectorSize).
pointsFlat(pts) ==
    LET vectorSize == Len(pts[0])
    IN  [c \in 0 .. (NumPoints(pts) * vectorSize - 1) |->
            pts[c \div vectorSize][(c % vectorSize) + 1]]

RECURSIVE computeSimilarityUpTo(_, _, _, _, _)
computeSimilarityUpTo(flat, i, j, vectorSize, k) ==
    IF k = 0 THEN 0
    ELSE computeSimilarityUpTo(flat, i, j, vectorSize, k - 1)
         + flat[i * vectorSize + (k - 1)] * flat[j * vectorSize + (k - 1)]

\* WGSL fn computeSimilarity(i, j, vectorSize)
computeSimilarity(flat, i, j, vectorSize) ==
    computeSimilarityUpTo(flat, i, j, vectorSize, vectorSize)

\* Faulty variant of numWorkgroups: the quotient is rounded down.
numWorkgroupsFloor(totalElements) == totalElements \div workgroupSize

\* Math.ceil(totalElements / workgroupSize)
numWorkgroups(totalElements) ==
    (totalElements + workgroupSize - 1) \div workgroupSize

\* The global invocation ids of dispatchWorkgroups(numWorkgroups).
GlobalIds(totalElements) == 0 .. (numWorkgroups(totalElements) * workgroupSize - 1)

\* WGSL fn main: the cells the threads write; a thread with
\* idx >= totalElements returns without writing.
KernelWrites(pts) ==
    LET numPoints == NumPoints(pts)
        totalElements == numPoints * numPoints
    IN  { idx \in GlobalIds(totalElements) : ~(idx >= totalElements) }

\* The result buffer after the dispatch (buffers are created zeroed).
GpuSimilarities(pts) ==
    LET numPoints == NumPoints(pts)
        vectorSize == Len(pts[0])
        flat == pointsFlat(pts)
        written == KernelWrites(pts)
    IN  [idx \in 0 .. (numPoints * numPoints - 1) |->
            IF idx \in written
            THEN computeSimilarity(flat, idx \div numPoints, idx % numPoints, vectorSize)
            ELSE 0]

\* Array.from({length: numPoints}, (_, i) => similarities.slice(i*numPoints, (i+1)*numPoints))
ReshapeSimilarities(similarities, numPoints) ==
    [i \in Indices(numPoints) |->
        [j \in Indices(numPoints) |-> similarities[i * numPoints + j]]]

\* The matrix the try block of computeDistanceMatrix returns.
computeDistanceMatrixGPU(pts) ==
    ReshapeSimilarities(GpuSimilarities(pts), NumPoints(pts))

\* Faulty variant of CatchOutcome: the catch block logs and rethrows.
CatchRethrows(pts) ==
    [pc |-> "rejected",
     matrix |-> << >>,
     log |-> << "GPU computation failed, falling back to CPU" >>]

\* The catch block of computeDistanceMatrix: log, then return the CPU matrix.
CatchOutcome(pts) ==
    [pc |-> "awaitMatrix",
     matrix |-> computeDistanceMatrixCPU(pts),
     log |-> << "GPU computation failed, falling back to CPU" >>]

\* -------------------------------------------------- clustering helpers
\* Faulty variant of NewVisited: the Set lives at module level and is shared by
\* every call, so a call starts with what earlier calls left in it.
SharedVisited == UNION { visited[r] : r \in Runs }

\* const visited = new Set(): created inside dbscan, empty at every call.
NewVisited == {}

\* Faulty variant of NeighborsUpTo: epsilon is read as a distance bound, so the
\* neighbours are the indices whose entry is <= epsilon.
RECURSIVE NeighborsUpToAsDistance(_, _, _, _)
NeighborsUpToAsDistance(matrix, eps, pointIndex, n) ==
    IF n = 0 THEN << >>
    ELSE LET rest == NeighborsUpToAsDistance(matrix, eps, pointIndex, n - 1)
         IN  IF matrix[pointIndex][n - 1] <= eps
             THEN Append(rest, n - 1)
             ELSE rest

\* The for loop of getNeighborsFromMatrix over i = 0 .. n-1.
RECURSIVE NeighborsUpTo(_, _, _, _)
NeighborsUpTo(matrix, eps, pointIndex, n) ==
    IF n = 0 THEN << >>
    ELSE LET rest == NeighborsUpTo(matrix, eps, pointIndex, n - 1)
         IN  IF matrix[pointIndex][n - 1] >= eps
             THEN Append(rest, n - 1)
             ELSE rest

\* function getNeighborsFromMatrix(pointIndex)
getNeighborsFromMatrix(matrix, eps, pointIndex) ==
    NeighborsUpTo(matrix, eps, pointIndex, Cardinality(DOMAIN matrix))

\* Faulty variant of visitedHas: no index is ever found in the Set.
visitedHasNothing(vis, index) == FALSE

\* visited.has(index)
visitedHas(vis, index) == index \in vis

\* Set.add on an insertion-ordered Set.
SetAdd(list, x) ==
    IF \E k \in 1 .. Len(list) : list[k] = x THEN list ELSE Append(list, x)

\* Faulty variant of PushUnvisited: the neighbours of a popped core point are dropped.
PushNothing(queue, resultNeighbors, vis) == queue

\* for (const n of resultNeighbors) if (!visited.has(n)) seeds.push(n)
PushUnvisited(queue, resultNeighbors, vis) ==
    queue \o SelectSeq(resultNeighbors, LAMBDA n : n \notin vis)

\* Faulty variant of RootIsNoise: the comparison is <= instead of <.
RootIsNoiseOffByOne(neighbors, mp) == Len(neighbors) <= mp

\* The test of the outer loop: neighbors.length < minPts labels the root noise.
RootIsNoise(neighbors, mp) == Len(neighbors) < mp

\* Faulty variant of ExpandsFrom: the popped point itself is not counted.
ExpandsFromExcludingSelf(resultNeighbors, mp) == Len(resultNeighbors) - 1 >= mp

\* The test inside expandCluster: resultNeighbors.length >= minPts.
ExpandsFrom(resultNeighbors, mp) == Len(resultNeighbors) >= mp

\* Faulty variant of AssignIfNull: the popped point is assigned whatever it held.
AssignAlways(asg, currentPoint, cid) == [asg EXCEPT ![currentPoint] = cid]

\* if (assignments[currentPoint] === null) assignments[currentPoint] = clusterId
AssignIfNull(asg, currentPoint, cid) ==
    IF asg[currentPoint] = Null
    THEN [asg EXCEPT ![currentPoint] = cid]
    ELSE asg

\* The two loops after the scan: clusters[k] lists, in ascending order, the
\* indices whose assignment is k.
RECURSIVE MembersUpTo(_, _, _)
MembersUpTo(asg, k, n) ==
    IF n = 0 THEN << >>
    ELSE LET rest == MembersUpTo(asg, k, n - 1)
         IN  IF asg[n - 1] = k THEN Append(rest, n - 1) ELSE rest

\* Faulty variant of BuildClusters: cluster ids are taken to start at 1.
BuildClustersFromOne(asg, cid) ==
    [k \in 1 .. cid |-> MembersUpTo(asg, k, Cardinality(DOMAIN asg))]

BuildClusters(asg, cid) ==
    [k \in 1 .. cid |-> MembersUpTo(asg, k - 1, Cardinality(DOMAIN asg))]

\* clusters[assignments[i]].push(i) with assignments[i] still null: null >= 0
\* is true in JavaScript and clusters[null] is undefined, so the push throws.
BuildThrows(asg) == \E i \in DOMAIN asg : asg[i] = Null

\* ---------------------------------------------------------------- state
PointLists == UNION { [Indices(n) -> Vectors] : n \in 0 .. MaxN }

\* "gpuMatrix": the try block has returned its matrix (return similarityMatrix);
\* "awaitMatrix": computeDistanceMatrixCPU has returned its matrix.
PcValues == { "idle", "requestAdapter", "requestDevice", "mapAsync", "catch",
              "gpuMatrix", "awaitMatrix", "scan", "expand", "done", "rejected" }

NoResult == [clusters |-> << >>, noise |-> << >>]

\* ------------------------------------------------------ worker: data
\* Who calls getInstance: 0 is the call at module load, q the listener
\* handling request q.
Callers == {0} \cup Runs

\* The lines a request is made of; " " is a whitespace-only line.
Texts == { "a", "b", " " }

\* text.trim()
Trim(text) == IF text = " " THEN "" ELSE text

\* What extractor(text, {pooling: 'mean', normalize: true}) resolves with:
\* vectors of one common length, here 5, so that 1 is One = 5 * 5 below.
Embed(text) == IF text = "a" THEN << 5, 0 >> ELSE << 4, 3 >>

One == 25

\* const similarityThreshold = 1 - data.epsilon
similarityThreshold(dataEpsilon) == One - dataEpsilon

\* data.epsilon of a request (0.04 and 0.2 on the scale of One).
DataEpsilons == { 1, 5 }

TextLists == UNION { [1 .. n -> Texts] : n \in 0 .. MaxTexts }

\* event.data.data of a compute_embeddings message.
RequestData == [texts : TextLists, epsilon : DataEpsilons, minPts : 1 .. 2]

NoRequest == [texts |-> << >>, epsilon |-> 0, minPts |-> 0]

\* null, and an array a: the two kinds of value of lastTexts and lastEmbeddings.
NullRef == [null |-> TRUE, value |-> << >>]

ArrayRef(a) == [null |-> FALSE, value |-> a]

\* A message handed to self.postMessage, with who posted it.
Msg(from, status) ==
    [from |-> from, status |-> status, current |-> 0, useGPU |-> FALSE,
     results |-> << >>, noise |-> << >>]

\* Faulty variant of CatchPosts: the catch block swallows the error.
CatchSilent(q, msgs) == msgs

\* catch (error) { self.postMessage({status: 'error', error: error.message}) }
\* of the listener handling request q.
CatchPosts(q, msgs) == Append(msgs, Msg(q, "error"))

\* The worker after its declarations, before the call at module load.
InitWorker ==
    /\ PipelineSingleton = [instance |-> "null", device |-> "wasm", useGPU |-> FALSE]
    /\ giPc = [c \in Callers |-> "none"]
    /\ pipelineLog = [invoked |-> 0, created |-> 0]
    /\ vectorCache = << >>
    /\ lastTexts = NullRef
    /\ lastEmbeddings = NullRef
    /\ posted = << >>
    /\ extractorCalls = << >>
    /\ request = [q \in Runs |-> NoRequest]
    /\ wpc = [q \in Runs |-> "none"]
    /\ texts = [q \in Runs |-> << >>]
    /\ embeddings = [q \in Runs |-> << >>]
    /\ uniqueI = [q \in Runs |-> 0]

\* The page after its first render: useState('loading'), useState(null),
\* nothing sent or received.
InitPage ==
    /\ modelStatus = "loading"
    /\ clusterStatus = "null"
    /\ delivered = 0
    /\ inbox = << >>

InitLocals ==
    /\ pc = [r \in Runs |-> "idle"]
    /\ similarityMatrix = [r \in Runs |-> << >>]
    /\ visited = [r \in Runs |-> {}]
    /\ noise = [r \in Runs |-> << >>]
    /\ assignments = [r \in Runs |-> << >>]
    /\ seeds = [r \in Runs |-> << >>]
    /\ scanI = [r \in Runs |-> 0]
    /\ clusterId = [r \in Runs |-> 0]
    /\ result = [r \in Runs |-> NoResult]
    /\ consoleLog = [r \in Runs |-> << >>]
    /\ InitWorker
    /\ InitPage

\* One dbscan call on any points, threshold and minPts.
Init ==
    /\ \E pts \in PointLists : points = [r \in Runs |-> pts]
    /\ \E eps \in Epsilons : epsilon = [r \in Runs |-> eps]
    /\ \E mp \in 0 .. MaxMinPts : minPts = [r \in Runs |-> mp]
    /\ InitLocals

\* Two dbscan calls on the same points and minPts, the second with a
\* threshold no higher than the first.
InitTwo ==
    /\ \E pts \in PointLists : points = [r \in Runs |-> pts]
    /\ \E eps1 \in Epsilons, eps2 \in Epsilons :
          /\ eps2 <= eps1
          /\ epsilon = [r \in Runs |-> IF r = 1 THEN eps1 ELSE eps2]
    /\ \E mp \in 0 .. MaxMinPts : minPts = [r \in Runs |-> mp]
    /\ InitLocals

\* -------------------------------------------------------------- actions
\* dbscan(points, epsilon, minPts, useGPU) up to its first suspension: the
\* locals are created and computeDistanceMatrix is entered, which takes the
\* accelerated path only if (useGPU && 'gpu' in navigator).
dbscanEnter(r, pts, eps, mp, useGPU) ==
    /\ pc[r] = "idle"
    /\ points' = [points EXCEPT ![r] = pts]
    /\ epsilon' = [epsilon EXCEPT ![r] = eps]
    /\ minPts' = [minPts EXCEPT ![r] = mp]
    /\ visited' = [visited EXCEPT ![r] = NewVisited]
    /\ noise' = [noise EXCEPT ![r] = << >>]
    /\ assignments' = [assignments EXCEPT ![r] = [i \in DOMAIN pts |-> Null]]
    /\ \E gpuInNavigator \in BOOLEAN :
          IF useGPU /\ gpuInNavigator
          THEN /\ pc' = [pc EXCEPT ![r] = "requestAdapter"]
               /\ UNCHANGED similarityMatrix
          ELSE /\ pc' = [pc EXCEPT ![r] = "awaitMatrix"]
               /\ similarityMatrix' =
                     [similarityMatrix EXCEPT ![r] = computeDistanceMatrixCPU(pts)]
    /\ UNCHANGED << seeds, scanI, clusterId, result, consoleLog >>

\* A dbscan call on the points, threshold and minPts of invocation r.
CallWith(r, useGPU) ==
    /\ dbscanEnter(r, points[r], epsilon[r], minPts[r], useGPU)
    /\ UNCHANGED hostVars

\* A call with either value of useGPU.
Call(r) == \E useGPU \in BOOLEAN : CallWith(r, useGPU)

\* A call that leaves useGPU to its default: dbscan(points, epsilon, minPts).
CallDefault(r) == CallWith(r, FALSE)

\* await navigator.gpu.requestAdapter(): an adapter, null (throws
\* 'No GPU adapter found') or a rejection.
RequestAdapter(r) ==
    /\ pc[r] = "requestAdapter"
    /\ \E outcome \in { "adapter", "null", "rejects" } :
          pc' = [pc EXCEPT ![r] = IF outcome = "adapter" THEN "requestDevice" ELSE "catch"]
    /\ UNCHANGED << points, epsilon, minPts, similarityMatrix, visited, noise,
                    assignments, seeds, scanI, clusterId, result, consoleLog >>
    /\ UNCHANGED hostVars

\* await adapter.requestDevice(), then the synchronous set-up up to
\* await readbackBuffer.mapAsync(); points[0].length throws on an empty list.
RequestDevice(r) ==
    /\ pc[r] = "requestDevice"
    /\ \E deviceOk \in BOOLEAN :
          pc' = [pc EXCEPT ![r] =
                    IF deviceOk /\ NumPoints(points[r]) > 0 THEN "mapAsync" ELSE "catch"]
    /\ UNCHANGED << points, epsilon, minPts, similarityMatrix, visited, noise,
                    assignments, seeds, scanI, clusterId, result, consoleLog >>
    /\ UNCHANGED hostVars

\* await readbackBuffer.mapAsync(GPUMapMode.READ), then read back and reshape.
MapAsync(r) ==
    /\ pc[r] = "mapAsync"
    /\ \E mapOk \in BOOLEAN :
          IF mapOk
          THEN /\ pc' = [pc EXCEPT ![r] = "gpuMatrix"]
               /\ similarityMatrix' =
                     [similarityMatrix EXCEPT ![r] = computeDistanceMatrixGPU(points[r])]
          ELSE /\ pc' = [pc EXCEPT ![r] = "catch"]
               /\ UNCHANGED similarityMatrix
    /\ UNCHANGED << points, epsilon, minPts, visited, noise,
                    assignments, seeds, scanI, clusterId, result, consoleLog >>
    /\ UNCHANGED hostVars

\* catch (error) { console.log(...); return computeDistanceMatrixCPU(points); }
Catch(r) ==
    /\ pc[r] = "catch"
    /\ LET out == CatchOutcome(points[r])
       IN  /\ pc' = [pc EXCEPT ![r] = out.pc]
           /\ similarityMatrix' = [similarityMatrix EXCEPT ![r] = out.matrix]
           /\ consoleLog' = [consoleLog EXCEPT ![r] = @ \o out.log]
    /\ UNCHANGED << points, epsilon, minPts, visited, noise,
                    assignments, seeds, scanI, clusterId, result >>
    /\ UNCHANGED hostVars

\* dbscan resumes after await computeDistanceMatrix: let clusterId = 0; i = 0.
Resume(r) ==
    /\ pc[r] \in { "gpuMatrix", "awaitMatrix" }
    /\ pc' = [pc EXCEPT ![r] = "scan"]
    /\ scanI' = [scanI EXCEPT ![r] = 0]
    /\ clusterId' = [clusterId EXCEPT ![r] = 0]
    /\ UNCHANGED << points, epsilon, minPts, similarityMatrix, visited, noise,
                    assignments, seeds, result, consoleLog >>
    /\ UNCHANGED hostVars

\* One iteration of the outer for loop, up to the call of expandCluster
\* (whose first statement assigns the root and copies neighbors into seeds).
ScanStep(r) ==
    /\ pc[r] = "scan"
    /\ scanI[r] < NumPoints(points[r])
    /\ LET i == scanI[r]
           neighbors == getNeighborsFromMatrix(similarityMatrix[r], epsilon[r], i)
       IN  IF visitedHas(visited[r], i)
           THEN /\ scanI' = [scanI EXCEPT ![r] = i + 1]
                /\ UNCHANGED << pc, visited, noise, assignments, seeds, clusterId >>
           ELSE /\ visited' = [visited EXCEPT ![r] = @ \cup {i}]
                /\ IF RootIsNoise(neighbors, minPts[r])
                   THEN /\ noise' = [noise EXCEPT ![r] = SetAdd(@, i)]
                        /\ assignments' = [assignments EXCEPT ![r][i] = NoiseMark]
                        /\ scanI' = [scanI EXCEPT ![r] = i + 1]
                        /\ UNCHANGED << pc, seeds, clusterId >>
                   ELSE /\ assignments' = [assignments EXCEPT ![r][i] = clusterId[r]]
                        /\ seeds' = [seeds EXCEPT ![r] = neighbors]
                        /\ IF neighbors = << >>
                           THEN /\ clusterId' = [clusterId EXCEPT ![r] = @ + 1]
                                /\ scanI' = [scanI EXCEPT ![r] = i + 1]
                                /\ UNCHANGED pc
                           ELSE /\ pc' = [pc EXCEPT ![r] = "expand"]
                                /\ UNCHANGED << scanI, clusterId >>
                        /\ UNCHANGED noise
    /\ UNCHANGED << points, epsilon, minPts, similarityMatrix, result, consoleLog >>
    /\ UNCHANGED hostVars

\* One iteration of the while loop of expandCluster; when it leaves seeds
\* empty the call returns and the outer loop does clusterId++ and i++.
ExpandStep(r) ==
    /\ pc[r] = "expand"
    /\ seeds[r] # << >>
    /\ LET currentPoint == Head(seeds[r])
           shifted == Tail(seeds[r])
           fresh == ~visitedHas(visited[r], currentPoint)
           visitedNow == IF fresh THEN visited[r] \cup {currentPoint} ELSE visited[r]
           resultNeighbors ==
               getNeighborsFromMatrix(similarityMatrix[r], epsilon[r], currentPoint)
           seedsNow == IF fresh /\ ExpandsFrom(resultNeighbors, minPts[r])
                       THEN PushUnvisited(shifted, resultNeighbors, visitedNow)
                       ELSE shifted
       IN  /\ visited' = [visited EXCEPT ![r] = visitedNow]
           /\ seeds' = [seeds EXCEPT ![r] = seedsNow]
           /\ assignments' = [assignments EXCEPT ![r] =
                                 AssignIfNull(@, currentPoint, clusterId[r])]
           /\ IF seedsNow = << >>
              THEN /\ pc' = [pc EXCEPT ![r] = "scan"]
                   /\ clusterId' = [clusterId EXCEPT ![r] = @ + 1]
                   /\ scanI' = [scanI EXCEPT ![r] = @ + 1]
              ELSE UNCHANGED << pc, clusterId, scanI >>
    /\ UNCHANGED << points, epsilon, minPts, similarityMatrix, noise, result, consoleLog >>
    /\ UNCHANGED hostVars

\* After the scan: build clusters from assignments and return
\* { clusters, noise: Array.from(noise) }.
Return(r) ==
    /\ pc[r] = "scan"
    /\ scanI[r] = NumPoints(points[r])
    /\ IF BuildThrows(assignments[r])
       THEN /\ pc' = [pc EXCEPT ![r] = "rejected"]
            /\ UNCHANGED result
       ELSE /\ pc' = [pc EXCEPT ![r] = "done"]
            /\ result' = [result EXCEPT ![r] =
                             [clusters |-> BuildClusters(assignments[r], clusterId[r]),
                              noise |-> noise[r]]]
    /\ UNCHANGED << points, epsilon, minPts, similarityMatrix, visited, noise,
                    assignments, seeds, scanI, clusterId, consoleLog >>
    /\ UNCHANGED hostVars

\* One dbscan call with either value of useGPU and any behaviour of the
\* accelerator.
Next ==
    \/ Call(1)
    \/ RequestAdapter(1)
    \/ RequestDevice(1)
    \/ MapAsync(1)
    \/ Catch(1)
    \/ Resume(1)
    \/ ScanStep(1)
    \/ ExpandStep(1)
    \/ Return(1)

Spec == Init /\ [][Next]_vars

\* computeDistanceMatrix on its own, on lists long enough for the dispatch
\* to need more than one workgroup: every point is the vector a except the
\* last, which is b. The threshold and minPts play no part in the matrix.
KernelPointLists ==
    { [i \in Indices(n) |-> IF i = n - 1 THEN ab[2] ELSE ab[1]] :
        ab \in Vectors \X Vectors, n \in 1 .. MaxKernelN }

InitKernel ==
    /\ \E pts \in KernelPointLists : points = [r \in Runs |-> pts]
    /\ \E eps \in Epsilons : epsilon = [r \in Runs |-> eps]
    /\ minPts = [r \in Runs |-> MaxMinPts]
    /\ InitLocals

NextKernel ==
    \/ Call(1)
    \/ RequestAdapter(1)
    \/ RequestDevice(1)
    \/ MapAsync(1)
    \/ Catch(1)

SpecKernel == InitKernel /\ [][NextKernel]_vars

\* One dbscan call that leaves useGPU to its default, so the matrix comes
\* from the sequential strategy: the clustering scan on its own.
NextScan ==
    \/ CallDefault(1)
    \/ Resume(1)
    \/ ScanStep(1)
    \/ ExpandStep(1)
    \/ Return(1)

SpecScan == Init /\ [][NextScan]_vars

\* The same call on lists of at most MaxFairN points, with the promise of
\* computeDistanceMatrix settling and the synchronous loops of dbscan
\* running on: whenever a step of the call is possible, one is taken.
FairPointLists == UNION { [Indices(n) -> Vectors] : n \in 0 .. MaxFairN }

InitFair ==
    /\ \E pts \in FairPointLists : points = [r \in Runs |-> pts]
    /\ \E eps \in Epsilons : epsilon = [r \in Runs |-> eps]
    /\ \E mp \in 0 .. MaxMinPts : minPts = [r \in Runs |-> mp]
    /\ InitLocals

FairScan == InitFair /\ [][NextScan]_vars /\ WF_vars(NextScan)

\* The caller runs dbscan again once the first call has returned.
Rerun ==
    /\ pc[1] = "done"
    /\ CallDefault(2)

\* Two calls in a row, both with the default strategy.
NextTwo ==
    \/ NextScan
    \/ Rerun
    \/ Resume(2)
    \/ ScanStep(2)
    \/ ExpandStep(2)
    \/ Return(2)

SpecTwo == InitTwo /\ [][NextTwo]_vars

\* Two dbscan calls on independent points and thresholds, both started
\* before either has returned or in any other order, their steps
\* interleaved arbitrarily.
PairVectors == { << 1, 1 >>, << 0, 3 >> }

PairLists == UNION { [Indices(n) -> PairVectors] : n \in 0 .. MaxPairN }

InitPair ==
    /\ \E pts1 \in PairLists, pts2 \in PairLists :
          points = [r \in Runs |-> IF r = 1 THEN pts1 ELSE pts2]
    /\ \E eps1 \in Epsilons, eps2 \in Epsilons :
          epsilon = [r \in Runs |-> IF r = 1 THEN eps1 ELSE eps2]
    /\ \E mp \in 1 .. 2 : minPts = [r \in Runs |-> mp]
    /\ InitLocals

NextPair ==
    \/ CallDefault(1)
    \/ Resume(1)
    \/ ScanStep(1)
    \/ ExpandStep(1)
    \/ Return(1)
    \/ CallDefault(2)
    \/ Resume(2)
    \/ ScanStep(2)
    \/ ExpandStep(2)
    \/ Return(2)

SpecPair == InitPair /\ [][NextPair]_vars

TypeOK ==
    /\ pc \in [Runs -> PcValues]
    /\ \A r \in Runs : visited[r] \subseteq DOMAIN points[r]

\* ---------------------------------------------------- worker: actions
dbscanVars == << points, epsilon, minPts, pc, similarityMatrix, visited, noise,
                 assignments, seeds, scanI, clusterId, result, consoleLog >>

\* A dbscan call is between its await and its return: the thread is busy,
\* no other callback of the worker runs.
Busy == \E r \in Runs : pc[r] \in { "scan", "expand" }

\* pipeline(this.task, this.model, options) is invoked by caller c.
InvokePipeline(c) ==
    /\ giPc' = [giPc EXCEPT ![c] = "pipeline"]
    /\ pipelineLog' = [pipelineLog EXCEPT !.invoked = @ + 1]

\* getInstance up to its first suspension, called by c.
getInstanceEnter(c) ==
    /\ IF PipelineSingleton.instance # "null"
       THEN /\ giPc' = [giPc EXCEPT ![c] = "resolved"]
            /\ UNCHANGED << posted, pipelineLog >>
       ELSE /\ posted' = Append(posted, Msg(c, "initiate"))
            /\ \E gpuInNavigator \in BOOLEAN :
                  IF gpuInNavigator
                  THEN /\ giPc' = [giPc EXCEPT ![c] = "requestAdapter"]
                       /\ UNCHANGED pipelineLog
                  ELSE InvokePipeline(c)
    /\ UNCHANGED PipelineSingleton

\* PipelineSingleton.getInstance(x => ...) at module load. The 'loading'
\* messages of the progress callback, which the library sends while the
\* model loads, are not recorded in posted.
Startup ==
    /\ giPc[0] = "none"
    /\ getInstanceEnter(0)
    /\ UNCHANGED << vectorCache, lastTexts, lastEmbeddings, extractorCalls,
                    request, wpc, texts, embeddings, uniqueI >>
    /\ UNCHANGED dbscanVars
    /\ UNCHANGED pageVars

\* await navigator.gpu.requestAdapter() inside getInstance: an adapter,
\* null, or a rejection, which the catch block turns into device = 'wasm'.
GiRequestAdapter(c) ==
    /\ giPc[c] = "requestAdapter"
    /\ ~Busy
    /\ \E outcome \in { "adapter", "null", "reject" } :
          IF outcome = "adapter"
          THEN /\ giPc' = [giPc EXCEPT ![c] = "requestDevice"]
               /\ UNCHANGED << pipelineLog, PipelineSingleton >>
          ELSE /\ InvokePipeline(c)
               /\ PipelineSingleton' =
                     IF outcome = "reject"
                     THEN [PipelineSingleton EXCEPT !.device = "wasm", !.useGPU = FALSE]
                     ELSE PipelineSingleton
    /\ UNCHANGED << vectorCache, lastTexts, lastEmbeddings, posted, extractorCalls,
                    request, wpc, texts, embeddings, uniqueI >>
    /\ UNCHANGED dbscanVars
    /\ UNCHANGED pageVars

\* await adapter.requestDevice() inside getInstance, then pipeline(...).
GiRequestDevice(c) ==
    /\ giPc[c] = "requestDevice"
    /\ ~Busy
    /\ \E outcome \in { "device", "null", "reject" } :
          PipelineSingleton' =
              IF outcome = "device"
              THEN [PipelineSingleton EXCEPT !.device = "webgpu", !.useGPU = TRUE]
              ELSE IF outcome = "reject"
                   THEN [PipelineSingleton EXCEPT !.device = "wasm", !.useGPU = FALSE]
                   ELSE PipelineSingleton
    /\ InvokePipeline(c)
    /\ UNCHANGED << vectorCache, lastTexts, lastEmbeddings, posted, extractorCalls,
                    request, wpc, texts, embeddings, uniqueI >>
    /\ UNCHANGED dbscanVars
    /\ UNCHANGED pageVars

\* this.instance = await pipeline(...): on success the instance is stored
\* and 'ready' is posted; on failure getInstance throws.
GiPipeline(c) ==
    /\ giPc[c] = "pipeline"
    /\ ~Busy
    /\ \E ok \in BOOLEAN :
          IF ok
          THEN /\ PipelineSingleton' = [PipelineSingleton EXCEPT !.instance = "pipeline"]
               /\ pipelineLog' = [pipelineLog EXCEPT !.created = @ + 1]
               /\ posted' = Append(posted,
                     [Msg(c, "ready") EXCEPT !.useGPU = PipelineSingleton.useGPU])
               /\ giPc' = [giPc EXCEPT ![c] = "resolved"]
          ELSE /\ giPc' = [giPc EXCEPT ![c] = "rejected"]
               /\ UNCHANGED << PipelineSingleton, pipelineLog, posted >>
    /\ UNCHANGED << vectorCache, lastTexts, lastEmbeddings, extractorCalls,
                    request, wpc, texts, embeddings, uniqueI >>
    /\ UNCHANGED dbscanVars
    /\ UNCHANGED pageVars

\* .catch(error => self.postMessage({status: 'error', ...})) of the call at
\* module load.
StartupCatch ==
    /\ giPc[0] = "rejected"
    /\ ~Busy
    /\ giPc' = [giPc EXCEPT ![0] = "caught"]
    /\ posted' = Append(posted, Msg(0, "error"))
    /\ UNCHANGED << PipelineSingleton, pipelineLog, vectorCache, lastTexts,
                    lastEmbeddings, extractorCalls, request, wpc, texts,
                    embeddings, uniqueI >>
    /\ UNCHANGED dbscanVars
    /\ UNCHANGED pageVars

\* [...new Set(texts)]
RECURSIVE uniqueTexts(_)
uniqueTexts(txts) ==
    IF txts = << >> THEN << >>
    ELSE SetAdd(uniqueTexts(SubSeq(txts, 1, Len(txts) - 1)), txts[Len(txts)])

\* textToIndexMap.get(text): the positions of text, counted from 0.
IndicesOf(txts, text) == { k \in Indices(Len(txts)) : txts[k + 1] = text }

\* indices.forEach(index => { embeddings[index] = vector })
Fill(emb, indices, vector) ==
    [k \in (DOMAIN emb) \cup indices |-> IF k \in indices THEN vector ELSE emb[k]]

\* Faulty variant of CacheSet: the vector is not stored.
CacheSetDropped(cache, text, vector) == cache

\* vectorCache.set(text, vector)
CacheSet(cache, text, vector) ==
    [t \in (DOMAIN cache) \cup {text} |-> IF t = text THEN vector ELSE cache[t]]

\* processedCount after the iterations 0 .. i of the loop.
ProcessedCount(txts, unique, i) ==
    Cardinality({ k \in Indices(Len(txts)) :
                    \E u \in 1 .. (i + 1) : unique[u] = txts[k + 1] })

\* The for loop of computeEmbeddings from iteration i on, up to its next
\* await extractor(...) or to its end: every iteration posts 'computing',
\* a cached text fills its positions and the loop goes on.
RECURSIVE EmbedLoop(_, _, _, _, _, _, _)
EmbedLoop(q, txts, unique, i, emb, cache, msgs) ==
    IF i >= Len(unique)
    THEN [awaiting |-> FALSE, i |-> i, embeddings |-> emb, posted |-> msgs]
    ELSE LET text == unique[i + 1]
             progress == [Msg(q, "computing") EXCEPT
                             !.current = ProcessedCount(txts, unique, i)]
         IN  IF text \in DOMAIN cache
             THEN EmbedLoop(q, txts, unique, i + 1,
                            Fill(emb, IndicesOf(txts, text), cache[text]),
                            cache, Append(msgs, progress))
             ELSE [awaiting |-> TRUE, i |-> i, embeddings |-> emb,
                   posted |-> Append(msgs, progress)]

\* Faulty variant of StartClustering: 'clustering' is not posted.
StartClusteringUnannounced(q, data, emb, msgs) ==
    /\ posted' = msgs
    /\ wpc' = [wpc EXCEPT ![q] = "dbscan"]
    /\ dbscanEnter(q, emb, similarityThreshold(data.epsilon), data.minPts,
                   PipelineSingleton.useGPU)

\* The listener from self.postMessage({status: 'clustering'}) to the first
\* suspension of dbscan(embeddings, similarityThreshold, data.minPts,
\* PipelineSingleton.useGPU).
StartClustering(q, data, emb, msgs) ==
    /\ posted' = Append(msgs, Msg(q, "clustering"))
    /\ wpc' = [wpc EXCEPT ![q] = "dbscan"]
    /\ dbscanEnter(q, emb, similarityThreshold(data.epsilon), data.minPts,
                   PipelineSingleton.useGPU)

\* Faulty variant of SaveLast: only the texts are saved.
SaveLastTextsOnly(txts, emb) ==
    /\ lastTexts' = ArrayRef(txts)
    /\ UNCHANGED lastEmbeddings

\* lastTexts = [...texts]; lastEmbeddings = [...embeddings]
SaveLast(txts, emb) ==
    /\ lastTexts' = ArrayRef(txts)
    /\ lastEmbeddings' = ArrayRef(emb)

\* computeEmbeddings runs on from iteration i; if the loop ends, the
\* listener saves lastTexts and lastEmbeddings and starts clustering.
Compute(q, i, emb, cache) ==
    LET out == EmbedLoop(q, texts[q], uniqueTexts(texts[q]), i, emb, cache, posted)
    IN  /\ embeddings' = [embeddings EXCEPT ![q] = out.embeddings]
        /\ uniqueI' = [uniqueI EXCEPT ![q] = out.i]
        /\ IF out.awaiting
           THEN /\ wpc' = [wpc EXCEPT ![q] = "extractor"]
                /\ posted' = out.posted
                /\ extractorCalls' =
                      Append(extractorCalls, uniqueTexts(texts[q])[out.i + 1])
                /\ UNCHANGED << lastTexts, lastEmbeddings >>
                /\ UNCHANGED dbscanVars
           ELSE /\ SaveLast(texts[q], out.embeddings)
                /\ StartClustering(q, request[q], out.embeddings, out.posted)
                /\ UNCHANGED extractorCalls

\* The listener on the compute_embeddings message data, up to its first
\* suspension, as the handler of request q.
Listener(q, data) ==
    LET txts == SelectSeq(data.texts, LAMBDA text : Trim(text) # "")
        unchanged ==
            /\ ~lastTexts.null
            /\ ~lastEmbeddings.null
            /\ Len(txts) = Len(lastTexts.value)
            /\ \A i \in 1 .. Len(txts) : txts[i] = lastTexts.value[i]
    IN  /\ request' = [request EXCEPT ![q] = data]
        /\ texts' = [texts EXCEPT ![q] = txts]
        /\ IF unchanged
           THEN /\ embeddings' = [embeddings EXCEPT ![q] = lastEmbeddings.value]
                /\ StartClustering(q, data, lastEmbeddings.value,
                      Append(posted, [Msg(q, "computing") EXCEPT
                                         !.current = Len(txts)]))
                /\ UNCHANGED << giPc, pipelineLog, PipelineSingleton >>
           ELSE /\ getInstanceEnter(q)
                /\ wpc' = [wpc EXCEPT ![q] = "getInstance"]
                /\ UNCHANGED embeddings
                /\ UNCHANGED dbscanVars
        /\ UNCHANGED << vectorCache, lastTexts, lastEmbeddings, extractorCalls,
                        uniqueI >>

\* A compute_embeddings message, one of requests, is delivered to the
\* worker. Requests arrive one at a time, at any moment after module load,
\* also before the pipeline is ready.
ReceiveFrom(q, requests) ==
    /\ wpc[q] = "none"
    /\ giPc[0] # "none"
    /\ \A earlier \in Runs : earlier < q => wpc[earlier] = "closed"
    /\ ~Busy
    /\ \E data \in requests : Listener(q, data)
    /\ UNCHANGED pageVars

\* A request of up to MaxTexts lines.
Receive(q) == ReceiveFrom(q, RequestData)

\* A request of up to MaxShortTexts lines, with one threshold and minPts.
ShortTextLists == UNION { [1 .. n -> Texts] : n \in 0 .. MaxShortTexts }

ShortRequestData == [texts : ShortTextLists, epsilon : { 5 }, minPts : { 1 }]

\* Such a request arriving when the call at module load has posted 'ready'.
ReceiveShort(q) ==
    /\ giPc[0] = "resolved"
    /\ ReceiveFrom(q, ShortRequestData)

\* The listener resumes after await PipelineSingleton.getInstance(): with
\* the extractor it enters computeEmbeddings, on a throw its catch block
\* posts 'error'.
AfterGetInstance(q) ==
    /\ wpc[q] = "getInstance"
    /\ giPc[q] \in { "resolved", "rejected" }
    /\ ~Busy
    /\ IF giPc[q] = "resolved"
       THEN Compute(q, 0, << >>, vectorCache)
       ELSE /\ posted' = CatchPosts(q, posted)
            /\ wpc' = [wpc EXCEPT ![q] = "closed"]
            /\ UNCHANGED << lastTexts, lastEmbeddings, extractorCalls, embeddings,
                            uniqueI >>
            /\ UNCHANGED dbscanVars
    /\ UNCHANGED << PipelineSingleton, giPc, pipelineLog, vectorCache, request, texts >>
    /\ UNCHANGED pageVars

\* await extractor(text, ...) settles: the vector is cached and filled in
\* and the loop goes on, or computeEmbeddings throws and the listener's
\* catch block posts 'error'.
ExtractorDone(q) ==
    /\ wpc[q] = "extractor"
    /\ ~Busy
    /\ \E ok \in BOOLEAN :
          IF ok
          THEN LET text == uniqueTexts(texts[q])[uniqueI[q] + 1]
                   vector == Embed(text)
                   cache == CacheSet(vectorCache, text, vector)
               IN  /\ vectorCache' = cache
                   /\ Compute(q, uniqueI[q] + 1,
                              Fill(embeddings[q], IndicesOf(texts[q], text), vector),
                              cache)
          ELSE /\ posted' = CatchPosts(q, posted)
               /\ wpc' = [wpc EXCEPT ![q] = "closed"]
               /\ UNCHANGED << vectorCache, lastTexts, lastEmbeddings, extractorCalls,
                               embeddings, uniqueI >>
               /\ UNCHANGED dbscanVars
    /\ UNCHANGED << PipelineSingleton, giPc, pipelineLog, request, texts >>
    /\ UNCHANGED pageVars

\* Faulty variant of ClusterTexts: every member gets the first member's text.
ClusterTextsOfFirst(txts, cluster) ==
    [size |-> Len(cluster), texts |-> [k \in 1 .. Len(cluster) |-> txts[cluster[1] + 1]]]

\* clusters.map(cluster => ({size: cluster.length, texts: cluster.map(index => texts[index])}))
ClusterTexts(txts, cluster) ==
    [size |-> Len(cluster), texts |-> [k \in 1 .. Len(cluster) |-> txts[cluster[k] + 1]]]

\* One step of the sort: entry goes behind every entry that is not smaller.
InsertBySize(sorted, entry) ==
    LET before == SelectSeq(sorted, LAMBDA e : e.size >= entry.size)
        after == SelectSeq(sorted, LAMBDA e : e.size < entry.size)
    IN  before \o << entry >> \o after

\* Faulty variant of SortBySize: the list is left in cluster-id order.
SortSkipped(list) == list

\* results.sort((a, b) => b.size - a.size), a stable sort.
RECURSIVE SortBySize(_)
SortBySize(list) ==
    IF list = << >> THEN << >>
    ELSE InsertBySize(SortBySize(SubSeq(list, 1, Len(list) - 1)), list[Len(list)])

\* The listener resumes after await dbscan(...): it maps indices to texts,
\* sorts and posts 'complete'; on a throw its catch block posts 'error'.
AfterDbscan(q) ==
    /\ wpc[q] = "dbscan"
    /\ pc[q] \in { "done", "rejected" }
    /\ IF pc[q] = "done"
       THEN LET clusters == result[q].clusters
                results == SortBySize([k \in 1 .. Len(clusters) |->
                                          ClusterTexts(texts[q], clusters[k])])
                noiseTexts == [k \in 1 .. Len(result[q].noise) |->
                                  texts[q][result[q].noise[k] + 1]]
            IN  posted' = Append(posted, [Msg(q, "complete") EXCEPT
                                             !.results = results, !.noise = noiseTexts])
       ELSE posted' = CatchPosts(q, posted)
    /\ wpc' = [wpc EXCEPT ![q] = "closed"]
    /\ UNCHANGED << PipelineSingleton, giPc, pipelineLog, vectorCache, lastTexts,
                    lastEmbeddings, extractorCalls, request, texts, embeddings,
                    uniqueI >>
    /\ UNCHANGED dbscanVars
    /\ UNCHANGED pageVars

\* The worker from module load on, with one compute_embeddings request.
InitOneRequest ==
    /\ points = [r \in Runs |-> << >>]
    /\ epsilon = [r \in Runs |-> 0]
    /\ minPts = [r \in Runs |-> 0]
    /\ InitLocals

NextOneRequest ==
    \/ Startup
    \/ GiRequestAdapter(0)
    \/ GiRequestDevice(0)
    \/ GiPipeline(0)
    \/ StartupCatch
    \/ Receive(1)
    \/ GiRequestAdapter(1)
    \/ GiRequestDevice(1)
    \/ GiPipeline(1)
    \/ AfterGetInstance(1)
    \/ ExtractorDone(1)
    \/ RequestAdapter(1)
    \/ RequestDevice(1)
    \/ MapAsync(1)
    \/ Catch(1)
    \/ Resume(1)
    \/ ScanStep(1)
    \/ ExpandStep(1)
    \/ Return(1)
    \/ AfterDbscan(1)

SpecOneRequest == InitOneRequest /\ [][NextOneRequest]_vars

\* The worker from module load on, with two short requests, the first
\* arriving after 'ready', the second after the first has had its terminal
\* message; getInstance() in the listener then returns the instance.
NextTwoRequests ==
    \/ Startup
    \/ GiRequestAdapter(0)
    \/ GiRequestDevice(0)
    \/ GiPipeline(0)
    \/ StartupCatch
    \/ ReceiveShort(1)
    \/ AfterGetInstance(1)
    \/ ExtractorDone(1)
    \/ RequestAdapter(1)
    \/ RequestDevice(1)
    \/ MapAsync(1)
    \/ Catch(1)
    \/ Resume(1)
    \/ ScanStep(1)
    \/ ExpandStep(1)
    \/ Return(1)
    \/ AfterDbscan(1)
    \/ ReceiveShort(2)
    \/ AfterGetInstance(2)
    \/ ExtractorDone(2)
    \/ RequestAdapter(2)
    \/ RequestDevice(2)
    \/ MapAsync(2)
    \/ Catch(2)
    \/ Resume(2)
    \/ ScanStep(2)
    \/ ExpandStep(2)
    \/ Return(2)
    \/ AfterDbscan(2)

SpecTwoRequests == InitOneRequest /\ [][NextTwoRequests]_vars

\* ------------------------------------------------------ page: actions
\* The lines of the textarea when the button is clicked; epsilon and
\* minPts are left at one value.
PageTextLists == UNION { [1 .. n -> Texts] : n \in 0 .. MaxPageLines }

\* Faulty variant of ButtonDisabled: only the model's status is looked at.
ButtonDisabledWhileLoading == modelStatus # "ready"

\* disabled={modelStatus !== 'ready' || clusterStatus === 'computing' ||
\* clusterStatus === 'clustering'}
ButtonDisabled ==
    \/ modelStatus # "ready"
    \/ clusterStatus = "computing"
    \/ clusterStatus = "clustering"

\* How many requests the page has sent.
Sent == Len(inbox) + Cardinality({ q \in Runs : wpc[q] # "none" })

\* A click on the enabled button runs handleCluster: with text in the
\* textarea it sets clusterStatus and posts compute_embeddings with the
\* non-blank lines. The re-render that React flushes at the end of the
\* click is part of the step.
handleCluster ==
    /\ ~ButtonDisabled
    /\ Sent < Cardinality(Runs)
    /\ \E lines \in PageTextLists :
          LET textArray == SelectSeq(lines, LAMBDA text : Trim(text) # "")
          IN  IF textArray = << >>
              THEN UNCHANGED << clusterStatus, inbox >>
              ELSE /\ clusterStatus' = "computing"
                   /\ inbox' = Append(inbox,
                         [texts |-> textArray, epsilon |-> 5, minPts |-> 1])
    /\ UNCHANGED << modelStatus, delivered >>
    /\ UNCHANGED workerVars
    /\ UNCHANGED dbscanVars

\* The page's listener handles the next message of the worker.
onMessageReceived ==
    /\ delivered < Len(posted)
    /\ delivered' = delivered + 1
    /\ LET status == posted[delivered + 1].status
       IN  /\ modelStatus' =
                 IF status = "initiate" THEN "loading"
                 ELSE IF status = "ready" THEN "ready"
                 ELSE modelStatus
           /\ clusterStatus' =
                 IF status = "ready" THEN "null"
                 ELSE IF status \in { "computing", "clustering", "complete", "error" }
                      THEN status
                      ELSE clusterStatus
    /\ UNCHANGED inbox
    /\ UNCHANGED workerVars
    /\ UNCHANGED dbscanVars

\* The worker's listener receives the oldest message the page has sent,
\* as request q, whatever the requests before it are doing.
ReceivePage(q) ==
    /\ inbox # << >>
    /\ wpc[q] = "none"
    /\ \A earlier \in Runs : earlier < q => wpc[earlier] # "none"
    /\ giPc[0] # "none"
    /\ ~Busy
    /\ Listener(q, Head(inbox))
    /\ inbox' = Tail(inbox)
    /\ UNCHANGED << modelStatus, clusterStatus, delivered >>

\* The page and its worker from module load on; the page is the worker's
\* only client and sends up to two requests.
NextPage ==
    \/ Startup
    \/ GiRequestAdapter(0)
    \/ GiRequestDevice(0)
    \/ GiPipeline(0)
    \/ StartupCatch
    \/ onMessageReceived
    \/ handleCluster
    \/ ReceivePage(1)
    \/ AfterGetInstance(1)
    \/ ExtractorDone(1)
    \/ RequestAdapter(1)
    \/ RequestDevice(1)
    \/ MapAsync(1)
    \/ Catch(1)
    \/ Resume(1)
    \/ ScanStep(1)
    \/ ExpandStep(1)
    \/ Return(1)
    \/ AfterDbscan(1)
    \/ ReceivePage(2)
    \/ AfterGetInstance(2)
    \/ ExtractorDone(2)
    \/ RequestAdapter(2)
    \/ RequestDevice(2)
    \/ MapAsync(2)
    \/ Catch(2)
    \/ Resume(2)
    \/ ScanStep(2)
    \/ ExpandStep(2)
    \/ Return(2)
    \/ AfterDbscan(2)

SpecPage == InitOneRequest /\ [][NextPage]_vars

\* ------------------------------------------------ reading off a result
N(r) == NumPoints(points[r])

Done(r) == pc[r] = "done"

\* How often x occurs in a list.
Occurrences(list, x) == Cardinality({ k \in 1 .. Len(list) : list[k] = x })

\* The members of a list, as a set.
Elements(list) == { list[k] : k \in 1 .. Len(list) }

\* How often index x occurs over all returned clusters.
ClusterOccurrences(r, x) ==
    Cardinality({ km \in (1 .. Len(result[r].clusters)) \X (1 .. MaxN + 1) :
                    /\ km[2] <= Len(result[r].clusters[km[1]])
                    /\ result[r].clusters[km[1]][km[2]] = x })

\* The returned clusters as a set of sets, and their union.
ClusterSets(r) ==
    { Elements(result[r].clusters[k]) : k \in 1 .. Len(result[r].clusters) }

Clustered(r) == UNION ClusterSets(r)

NoiseSet(r) == Elements(result[r].noise)

\* The neighbour relation and the self-inclusive core test, read off the
\* dot products of the points rather than off the run's state.
Near(r, i, j) == vectorSimilarity(points[r][i], points[r][j]) >= epsilon[r]

NeighborCount(r, i) == Cardinality({ j \in Indices(N(r)) : Near(r, i, j) })

IsCore(r, i) == NeighborCount(r, i) >= minPts[r]

Cores(r) == { i \in Indices(N(r)) : IsCore(r, i) }

\* The neighbour relation as a set of ordered pairs.
NearPairs(r) == { ij \in Indices(N(r)) \X Indices(N(r)) : Near(r, ij[1], ij[2]) }

\* The core points joined to those reached by a chain of core points, each
\* within threshold of the next (at most k rounds of closure).
RECURSIVE CoreChain(_, _, _, _)
CoreChain(near, cores, reached, k) ==
    LET more == reached \cup { q \in cores \ reached :
                                 \E c \in reached : << c, q >> \in near }
    IN  IF k = 0 \/ more = reached THEN reached
        ELSE CoreChain(near, cores, more, k - 1)

CoreConnected(r, p) == CoreChain(NearPairs(r), Cores(r), {p}, N(r))

\* -------------------------------------------------------------- claims
\* C1: after dbscan returns, every index in [0,N) occurs exactly once over
\* the returned clusters and the returned noise list taken together, and
\* nothing else occurs in them.
C1_Partition ==
    \A r \in Runs :
        Done(r) =>
            /\ \A x \in Indices(N(r)) :
                  ClusterOccurrences(r, x) + Occurrences(result[r].noise, x) = 1
            /\ Clustered(r) \cup NoiseSet(r) \subseteq Indices(N(r))

\* A returned result with both a cluster of several points and noise.
C1_Witness ==
    /\ Done(1)
    /\ N(1) >= 3
    /\ NoiseSet(1) # {}
    /\ \E c \in ClusterSets(1) : Cardinality(c) >= 2

\* C2: a point labelled noise as a scan root that is popped from the queue
\* during a later expansion is assigned to the expanding cluster.
C2_NoiseAbsorbed ==
    [][\A r \in Runs :
          ( /\ pc[r] = "expand"
            /\ seeds[r] # << >>
            /\ assignments[r][Head(seeds[r])] = NoiseMark
            /\ seeds'[r] # seeds[r] )
          => assignments'[r][Head(seeds[r])] = clusterId[r]]_vars

\* C3: on return, an index is in the noise set iff it is neither a core
\* point nor within threshold of a core point.
C3_NoiseIffUnreachable ==
    \A r \in Runs :
        Done(r) =>
            \A i \in Indices(N(r)) :
                (i \in NoiseSet(r))
                    <=> (~IsCore(r, i) /\ ~\E c \in Cores(r) : Near(r, i, c))

\* C4: two core points joined by a chain of core points, each within
\* threshold of the next, are in the same returned cluster.
C4_CoreChainsTogether ==
    \A r \in Runs :
        Done(r) =>
            LET near == NearPairs(r)
                cores == Cores(r)
                clusters == ClusterSets(r)
            IN  \A p \in cores :
                    \E c \in clusters : CoreChain(near, cores, {p}, N(r)) \subseteq c

\* A returned cluster holding two core points that are joined by a chain
\* but are not within threshold of each other.
C4_Witness ==
    /\ Done(1)
    /\ \E p \in Cores(1) :
          \E q \in CoreConnected(1, p) :
              /\ ~Near(1, p, q)
              /\ \E c \in ClusterSets(1) : {p, q} \subseteq c

\* C5 as stated: with epsilon[2] <= epsilon[1] on the same points and
\* minPts, every cluster of the first run lies inside one cluster of the second.
C5_ClustersNeverSplit ==
    (Done(1) /\ Done(2)) =>
        \A c1 \in ClusterSets(1) : \E c2 \in ClusterSets(2) : c1 \subseteq c2

\* C5 (amended): with epsilon[2] <= epsilon[1] on the same points and minPts,
\* the core points of every cluster of the first run lie inside one cluster
\* of the second.
C5_CoresNeverSplit ==
    (Done(1) /\ Done(2)) =>
        LET cores == Cores(1)
        IN  \A c1 \in ClusterSets(1) :
                \E c2 \in ClusterSets(2) : (c1 \cap cores) \subseteq c2

\* A lower threshold merges two clusters that each hold several core points.
C5_Witness ==
    /\ Done(1) /\ Done(2)
    /\ epsilon[2] < epsilon[1]
    /\ \E c1 \in ClusterSets(1), d1 \in ClusterSets(1), c2 \in ClusterSets(2) :
          /\ c1 # d1
          /\ Cardinality(c1 \cap Cores(1)) >= 2
          /\ c1 \cup d1 \subseteq c2

\* C6: with epsilon[2] <= epsilon[1] on the same points and minPts, every
\* index clustered by the first run is clustered by the second, and the
\* noise of the second run is part of the noise of the first.
C6_NoiseOnlyShrinks ==
    (Done(1) /\ Done(2)) =>
        /\ Clustered(1) \subseteq Clustered(2)
        /\ NoiseSet(2) \subseteq NoiseSet(1)

\* A lower threshold moves some, but not all, noise into clusters.
C6_Witness ==
    /\ Done(1) /\ Done(2)
    /\ epsilon[2] < epsilon[1]
    /\ Clustered(1) # {}
    /\ NoiseSet(2) # {}
    /\ NoiseSet(2) # NoiseSet(1)

\* C7: a second run on the same points, threshold and minPts returns, and
\* returns the result of the first: the same clusters under the same ids and
\* the same noise; during the scan exactly one step is possible.
C7_Deterministic ==
    /\ pc[2] # "rejected"
    /\ (Done(1) /\ Done(2) /\ epsilon[1] = epsilon[2]) => result[1] = result[2]
    /\ \A r \in Runs :
          pc[r] \in { "scan", "expand" } =>
              Cardinality({ a \in { "ScanStep", "ExpandStep", "Return" } :
                              \/ a = "ScanStep" /\ ENABLED ScanStep(r)
                              \/ a = "ExpandStep" /\ ENABLED ExpandStep(r)
                              \/ a = "Return" /\ ENABLED Return(r) }) = 1

\* Both runs returned several clusters and some noise at the same threshold.
C7_Witness ==
    /\ Done(1) /\ Done(2)
    /\ epsilon[1] = epsilon[2]
    /\ Len(result[2].clusters) >= 2
    /\ result[2].noise # << >>

\* C8: with minPts = 1 and every diagonal entry >= threshold, every index
\* is a core point, no index is returned as noise and every index is in
\* exactly one cluster.
C8_MinPtsOne ==
    \A r \in Runs :
        ( /\ Done(r)
          /\ minPts[r] = 1
          /\ \A i \in Indices(N(r)) : similarityMatrix[r][i][i] >= epsilon[r] )
        => /\ Cores(r) = Indices(N(r))
           /\ result[r].noise = << >>
           /\ \A x \in Indices(N(r)) : ClusterOccurrences(r, x) = 1

\* Such a run that returned a cluster of one point and a larger one.
C8_Witness ==
    /\ Done(1)
    /\ minPts[1] = 1
    /\ \A i \in Indices(N(1)) : similarityMatrix[1][i][i] >= epsilon[1]
    /\ \E c \in ClusterSets(1) : Cardinality(c) = 1
    /\ \E c \in ClusterSets(1) : Cardinality(c) >= 2

\* The neighbour relation is reflexive, symmetric and transitive.
NearIsEquivalence(r) ==
    \A i \in Indices(N(r)) :
        /\ Near(r, i, i)
        /\ \A j \in Indices(N(r)) :
              /\ Near(r, i, j) => Near(r, j, i)
              /\ \A k \in Indices(N(r)) :
                    (Near(r, i, j) /\ Near(r, j, k)) => Near(r, i, k)

NearClass(r, i) == { j \in Indices(N(r)) : Near(r, i, j) }

\* C9: when the neighbour relation is an equivalence, the returned clusters
\* are exactly its classes of size >= minPts, one cluster each, and the
\* noise is exactly the union of the smaller classes.
C9_EquivalenceClasses ==
    \A r \in Runs :
        (Done(r) /\ NearIsEquivalence(r)) =>
            /\ ClusterSets(r) =
                  { NearClass(r, i) :
                      i \in { j \in Indices(N(r)) :
                                Cardinality(NearClass(r, j)) >= minPts[r] } }
            /\ Len(result[r].clusters) = Cardinality(ClusterSets(r))
            /\ NoiseSet(r) =
                  { i \in Indices(N(r)) : Cardinality(NearClass(r, i)) < minPts[r] }

\* Such a run with a class large enough to be a cluster and one too small.
C9_Witness ==
    /\ Done(1)
    /\ NearIsEquivalence(1)
    /\ minPts[1] >= 2
    /\ \E i \in Indices(N(1)) : Cardinality(NearClass(1, i)) >= minPts[1]
    /\ \E i \in Indices(N(1)) : Cardinality(NearClass(1, i)) < minPts[1]

\* C10: once the accelerated path has failed (the catch block has logged
\* it), the invocation holds the matrix of the sequential strategy and goes
\* on to return; it is never rejected.
C10_FallbackIsSequential ==
    \A r \in Runs :
        consoleLog[r] # << >> =>
            /\ pc[r] \in { "awaitMatrix", "scan", "expand", "done" }
            /\ similarityMatrix[r] = computeDistanceMatrixCPU(points[r])

\* A call whose accelerated attempt failed returned clusters and noise.
C10_Witness ==
    /\ Done(1)
    /\ consoleLog[1] # << >>
    /\ result[1].clusters # << >>
    /\ result[1].noise # << >>

\* C11: when the accelerated path succeeds, the matrix it returns has the
\* entries of the sequential strategy: the dispatch is of
\* ceil(N*N / workgroupSize) workgroups, the threads with idx < N*N write
\* the cells 0 .. N*N-1 (thread idx writes cell idx, so each cell once),
\* the threads with idx >= N*N write nothing, and after the reshape
\* matrix[i][j] is the dot product of points i and j.
C11_AcceleratedIsSequential ==
    \A r \in Runs :
        pc[r] = "gpuMatrix" =>
            LET n == N(r)
                total == n * n
                groups == numWorkgroups(total)
                similarities == GpuSimilarities(points[r])
            IN  /\ groups * workgroupSize >= total
                /\ (groups - 1) * workgroupSize < total
                /\ KernelWrites(points[r]) = 0 .. (total - 1)
                /\ \A idx \in 0 .. (total - 1) :
                      similarities[idx] =
                          vectorSimilarity(points[r][idx \div n], points[r][idx % n])
                /\ similarityMatrix[r] = computeDistanceMatrixCPU(points[r])

\* A successful accelerated run whose dispatch needed a second workgroup,
\* part of it idle, and whose matrix has entries that differ.
C11_Witness ==
    /\ pc[1] = "gpuMatrix"
    /\ N(1) * N(1) > workgroupSize
    /\ Cardinality(GlobalIds(N(1) * N(1))) > N(1) * N(1)
    /\ similarityMatrix[1][N(1) - 1][N(1) - 1] # similarityMatrix[1][0][N(1) - 1]
    /\ similarityMatrix[1][N(1) - 1][N(1) - 1] # 0

\* C12: the similarity matrix, from either strategy, has exactly N rows of
\* N entries (a single entry for N = 1) and is symmetric:
\* matrix[i][j] = matrix[j][i].
C12_SquareAndSymmetric ==
    \A r \in Runs :
        pc[r] \in { "gpuMatrix", "awaitMatrix" } =>
            LET matrix == similarityMatrix[r]
            IN  /\ DOMAIN matrix = Indices(N(r))
                /\ \A i \in Indices(N(r)) : DOMAIN matrix[i] = Indices(N(r))
                /\ \A i \in Indices(N(r)), j \in Indices(N(r)) :
                      matrix[i][j] = matrix[j][i]

\* A matrix of the sequential strategy over at least three points whose
\* rows are not constant and whose diagonal differs from the rest.
C12_Witness ==
    /\ pc[1] = "awaitMatrix"
    /\ consoleLog[1] = << >>
    /\ N(1) >= 3
    /\ similarityMatrix[1][0][1] # similarityMatrix[1][0][2]
    /\ similarityMatrix[1][0][1] # similarityMatrix[1][0][0]
    /\ similarityMatrix[1][1][1] # similarityMatrix[1][0][0]

\* C13: every returned cluster has at least one member, whatever the
\* points, the threshold and minPts: there is one cluster per id handed out
\* and each holds an index whose assignment is that id.
C13_ClustersNonEmpty ==
    \A r \in Runs :
        Done(r) =>
            /\ Len(result[r].clusters) = clusterId[r]
            /\ \A k \in 1 .. Len(result[r].clusters) :
                  /\ result[r].clusters[k] # << >>
                  /\ \E i \in Elements(result[r].clusters[k]) :
                        assignments[r][i] = k - 1

\* A result with two clusters, one of them a lone root that is not even
\* within threshold of itself.
C13_Witness ==
    /\ Done(1)
    /\ Len(result[1].clusters) >= 2
    /\ \E k \in 1 .. Len(result[1].clusters) :
          /\ Len(result[1].clusters[k]) = 1
          /\ ~Near(1, result[1].clusters[k][1], result[1].clusters[k][1])

\* The indices assigned to cluster id k so far.
AssignedTo(r, k) == { i \in DOMAIN assignments[r] : assignments[r][i] = k }

\* The smallest member of a non-empty set of indices.
MinIndex(S) == CHOOSE i \in S : \A j \in S : i <= j

\* C14: cluster ids are handed out in discovery order. While the scan
\* runs, the ids in use are exactly 0 .. clusterId-1 (plus clusterId while
\* its cluster is being expanded), the root being expanded is the smallest
\* index of its cluster, and the smallest indices of the earlier clusters
\* increase with the id and lie below the root. In the result the clusters
\* are 0 .. K-1 without gaps, each led by its smallest index, and these
\* leading indices are strictly increasing.
C14_DiscoveryOrder ==
    \A r \in Runs :
        /\ pc[r] \in { "scan", "expand" } =>
              LET open == IF pc[r] = "expand" THEN clusterId[r] ELSE clusterId[r] - 1
              IN  /\ \A i \in DOMAIN assignments[r] :
                        assignments[r][i] \in { Null, NoiseMark } \cup (0 .. open)
                  /\ \A k \in 0 .. open : AssignedTo(r, k) # {}
                  /\ \A k \in 1 .. open :
                        MinIndex(AssignedTo(r, k - 1)) < MinIndex(AssignedTo(r, k))
                  /\ pc[r] = "expand" =>
                        MinIndex(AssignedTo(r, clusterId[r])) = scanI[r]
                  /\ pc[r] = "scan" /\ open >= 0 =>
                        MinIndex(AssignedTo(r, open)) < scanI[r]
        /\ Done(r) =>
              LET clusters == result[r].clusters
              IN  /\ \A k \in 1 .. Len(clusters) :
                        /\ Elements(clusters[k]) = AssignedTo(r, k - 1)
                        /\ clusters[k] # << >>
                        /\ clusters[k][1] = MinIndex(AssignedTo(r, k - 1))
                  /\ \A i \in DOMAIN assignments[r] :
                        assignments[r][i] \in { NoiseMark } \cup (0 .. Len(clusters) - 1)
                  /\ \A k \in 1 .. Len(clusters) - 1 :
                        clusters[k][1] < clusters[k + 1][1]

\* A result with two clusters behind a noise point, the first cluster
\* reaching past the root of the second.
C14_Witness ==
    /\ Done(1)
    /\ Len(result[1].clusters) = 2
    /\ 0 \in NoiseSet(1)
    /\ \E i \in Elements(result[1].clusters[1]) : i > result[1].clusters[2][1]

\* The members of a set of indices below n, in ascending order.
RECURSIVE AscendingBelow(_, _)
AscendingBelow(S, n) ==
    IF n = 0 THEN << >>
    ELSE IF (n - 1) \in S
         THEN Append(AscendingBelow(S, n - 1), n - 1)
         ELSE AscendingBelow(S, n - 1)

\* C15: the core test counts the point itself and is the same on both
\* paths. An unvisited root of the outer scan founds a cluster exactly when
\* the number of j, j = root included, with similarity >= threshold is at
\* least minPts, and is labelled noise otherwise; an unvisited point popped
\* inside expandCluster has its unvisited neighbours appended to seeds
\* exactly under the same condition.
C15_CoreTestSelfInclusive ==
    [][\A r \in Runs :
          /\ ( /\ pc[r] = "scan"
               /\ scanI[r] \in visited'[r] \ visited[r] )
             => /\ IsCore(r, scanI[r]) <=> assignments'[r][scanI[r]] = clusterId[r]
                /\ ~IsCore(r, scanI[r]) <=> assignments'[r][scanI[r]] = NoiseMark
          /\ ( /\ pc[r] = "expand"
               /\ seeds[r] # << >>
               /\ Head(seeds[r]) \in visited'[r] \ visited[r] )
             => LET p == Head(seeds[r])
                    unvisitedNear == { j \in Indices(N(r)) :
                                         Near(r, p, j) /\ j \notin visited'[r] }
                IN  seeds'[r] = IF IsCore(r, p)
                                THEN Tail(seeds[r]) \o AscendingBelow(unvisitedNear, N(r))
                                ELSE Tail(seeds[r])
    ]_vars

\* A finished run in which the self-inclusive count decided both tests: a
\* root and another member of its cluster each have exactly minPts
\* neighbours, themselves included, and that member brought in a point the
\* root is not within threshold of.
C15_Witness ==
    /\ Done(1)
    /\ minPts[1] >= 2
    /\ \E k \in 1 .. Len(result[1].clusters) :
          LET root == result[1].clusters[k][1]
          IN  /\ NeighborCount(1, root) = minPts[1]
              /\ Near(1, root, root)
              /\ \E p \in Elements(result[1].clusters[k]) \ { root } :
                    /\ NeighborCount(1, p) = minPts[1]
                    /\ Near(1, p, p)
                    /\ \E q \in Elements(result[1].clusters[k]) :
                          Near(1, p, q) /\ ~Near(1, root, q)

\* C16: a call with malformed input, an empty list of points or a minPts
\* that is not positive, ends in an error and returns no partition.
C16_MalformedInputRejected ==
    \A r \in Runs :
        (N(r) = 0 \/ minPts[r] <= 0) => ~Done(r)

\* dbscan run from its first statement to its return with nothing else
\* running: st holds the locals, st.expanding tells whether control is
\* inside the while loop of expandCluster.
RECURSIVE ScanAlone(_, _, _, _)
ScanAlone(matrix, eps, mp, st) ==
    IF st.expanding
    THEN IF st.seeds = << >>
         THEN ScanAlone(matrix, eps, mp,
                  [st EXCEPT !.expanding = FALSE, !.clusterId = @ + 1, !.i = @ + 1])
         ELSE LET currentPoint == Head(st.seeds)
                  fresh == currentPoint \notin st.visited
                  visitedNow == IF fresh THEN st.visited \cup {currentPoint}
                                ELSE st.visited
                  resultNeighbors == getNeighborsFromMatrix(matrix, eps, currentPoint)
              IN  ScanAlone(matrix, eps, mp,
                      [st EXCEPT
                          !.visited = visitedNow,
                          !.seeds = IF fresh /\ ExpandsFrom(resultNeighbors, mp)
                                    THEN PushUnvisited(Tail(st.seeds), resultNeighbors,
                                                       visitedNow)
                                    ELSE Tail(st.seeds),
                          !.assignments = AssignIfNull(@, currentPoint, st.clusterId)])
    ELSE IF st.i >= Cardinality(DOMAIN matrix)
         THEN IF BuildThrows(st.assignments)
              THEN [rejected |-> TRUE, value |-> NoResult]
              ELSE [rejected |-> FALSE,
                    value |-> [clusters |-> BuildClusters(st.assignments, st.clusterId),
                               noise |-> st.noise]]
         ELSE IF st.i \in st.visited
              THEN ScanAlone(matrix, eps, mp, [st EXCEPT !.i = @ + 1])
              ELSE LET neighbors == getNeighborsFromMatrix(matrix, eps, st.i)
                   IN  IF RootIsNoise(neighbors, mp)
                       THEN ScanAlone(matrix, eps, mp,
                                [st EXCEPT !.visited = @ \cup {st.i},
                                           !.noise = SetAdd(@, st.i),
                                           !.assignments[st.i] = NoiseMark,
                                           !.i = @ + 1])
                       ELSE ScanAlone(matrix, eps, mp,
                                [st EXCEPT !.visited = @ \cup {st.i},
                                           !.assignments[st.i] = st.clusterId,
                                           !.seeds = neighbors,
                                           !.expanding = TRUE])

\* What dbscan(points, epsilon, minPts) returns when it is the only call.
dbscanAlone(pts, eps, mp) ==
    ScanAlone(computeDistanceMatrixCPU(pts), eps, mp,
              [visited |-> {}, noise |-> << >>,
               assignments |-> [i \in DOMAIN pts |-> Null],
               seeds |-> << >>, i |-> 0, clusterId |-> 0, expanding |-> FALSE])

\* C18: two dbscan calls on independent inputs, their steps interleaved in
\* any order, each return exactly what the call returns when it runs alone;
\* neither is rejected.
C18_InterleavedAsAlone ==
    \A r \in Runs :
        /\ pc[r] # "rejected"
        /\ Done(r) =>
              LET alone == dbscanAlone(points[r], epsilon[r], minPts[r])
              IN  ~alone.rejected /\ result[r] = alone.value

\* Both calls are inside expandCluster at once, on different points, the
\* first having returned nothing yet and the second with points queued.
C18_Witness ==
    /\ pc[1] = "expand"
    /\ pc[2] = "expand"
    /\ points[1] # points[2]
    /\ visited[1] # visited[2]
    /\ seeds[1] # << >>
    /\ seeds[2] # << >>

\* The positions in posted of the messages of request q with a status in S.
PostedAt(q, S) ==
    { k \in 1 .. Len(posted) : posted[k].from = q /\ posted[k].status \in S }

\* C17: a request gets exactly one terminal message, 'complete' or 'error',
\* never both: none while its listener runs, one once it has ended, and
\* the worker never comes to rest with a listener that has not ended.
\* 'complete' is posted only when every text has its vector and dbscan has
\* returned, after 'clustering'; when getInstance, the extractor or dbscan
\* threw, the one terminal message is 'error'.
C17_OneTerminalMessage ==
    \A q \in Runs :
        LET terminal == PostedAt(q, { "complete", "error" })
            complete == PostedAt(q, { "complete" })
        IN  /\ Cardinality(terminal) = IF wpc[q] = "closed" THEN 1 ELSE 0
            /\ complete # {} =>
                  /\ pc[q] = "done"
                  /\ DOMAIN embeddings[q] = Indices(Len(texts[q]))
                  /\ \E c \in PostedAt(q, { "clustering" }) :
                        \A k \in complete : c < k
            /\ (wpc[q] = "closed" /\ (giPc[q] = "rejected" \/ pc[q] # "done"))
                  => complete = {}
            /\ wpc[q] \notin { "none", "closed" } => ENABLED NextOneRequest

\* A request of three lines, two of them equal, that ended with 'complete'
\* after the extractor ran, and whose partition has a cluster and noise.
C17_Witness ==
    /\ wpc[1] = "closed"
    /\ Len(texts[1]) = 3
    /\ Len(extractorCalls) = 2
    /\ \E k \in PostedAt(1, { "complete" }) :
          posted[k].results # << >> /\ posted[k].noise # << >>

\* C19: the pipeline is created at most once in the worker's lifetime,
\* whenever a compute_embeddings message arrives relative to the call of
\* getInstance at module load: pipeline(...) resolves into this.instance
\* at most once and 'ready' is posted at most once.
C19_PipelineCreatedOnce ==
    /\ pipelineLog.created <= 1
    /\ Cardinality({ k \in 1 .. Len(posted) : posted[k].status = "ready" }) <= 1

\* C20: in every 'complete' message the results are in order of
\* non-increasing size, the size of each entry is the number of its texts,
\* and the entries are those of the clusters dbscan returned, one each.
C20_ResultsSortedBySize ==
    \A q \in Runs :
        \A k \in PostedAt(q, { "complete" }) :
            LET results == posted[k].results
                clusters == result[q].clusters
                mapped == [c \in 1 .. Len(clusters) |->
                              ClusterTexts(texts[q], clusters[c])]
            IN  /\ \A e \in 1 .. Len(results) - 1 :
                      results[e].size >= results[e + 1].size
                /\ \A e \in 1 .. Len(results) :
                      results[e].size = Len(results[e].texts)
                /\ Len(results) = Len(clusters)
                /\ \A c \in 1 .. Len(clusters) :
                      Occurrences(results, mapped[c]) = Occurrences(mapped, mapped[c])

\* A 'complete' message whose larger cluster dbscan found second.
C20_Witness ==
    \E k \in PostedAt(1, { "complete" }) :
        /\ Len(posted[k].results) = 2
        /\ posted[k].results[1].size > posted[k].results[2].size
        /\ Len(result[1].clusters[1]) < Len(result[1].clusters[2])

\* C21: cluster assignments are written once and a cluster is never
\* reopened. In every step of the scan an index that holds a cluster id
\* keeps it, and an index that receives a cluster id receives the id of the
\* cluster being founded or expanded in that step, never the id of a
\* cluster whose expansion has ended.
C21_WriteOnceNeverReopened ==
    [][\A r \in Runs :
          pc[r] \in { "scan", "expand" } =>
              \A i \in Indices(N(r)) :
                  /\ assignments[r][i] >= 0 => assignments'[r][i] = assignments[r][i]
                  /\ (assignments'[r][i] # assignments[r][i] /\ assignments'[r][i] >= 0)
                        => /\ assignments'[r][i] = clusterId[r]
                           /\ \A k \in 0 .. clusterId[r] - 1 : assignments'[r][i] # k
    ]_vars

\* A finished run with two clusters in which a member of the first is
\* within threshold of the root of the second, so it was popped again while
\* the second cluster expanded, and is still in the first.
C21_Witness ==
    /\ Done(1)
    /\ Len(result[1].clusters) = 2
    /\ \E p \in Elements(result[1].clusters[1]) :
          /\ Near(1, result[1].clusters[2][1], p)
          /\ assignments[1][p] = 0

\* C22: every expansion ends and dbscan returns, and every index is marked
\* visited exactly once. A step never takes an index out of visited and
\* adds at most one; an index that is already visited is passed over,
\* by the outer loop without any change but i++, by expandCluster without
\* queueing anything; at the return every index is visited. Every
\* expansion is followed by the outer loop resuming, and every call by its
\* return.
C22_TerminatesVisitingOnce ==
    /\ [][\A r \in Runs :
             pc[r] \in { "scan", "expand" } =>
                 /\ visited[r] \subseteq visited'[r]
                 /\ Cardinality(visited'[r] \ visited[r]) <= 1
                 /\ (pc[r] = "scan" /\ scanI[r] \in visited[r])
                       => /\ visited'[r] = visited[r]
                          /\ assignments'[r] = assignments[r]
                          /\ noise'[r] = noise[r]
                 /\ (pc[r] = "expand" /\ seeds[r] # << >>
                        /\ Head(seeds[r]) \in visited[r])
                       => /\ visited'[r] = visited[r]
                          /\ seeds'[r] = Tail(seeds[r])
                 /\ pc'[r] = "done" => visited'[r] = Indices(N(r))
       ]_vars
    /\ (pc[1] = "expand") ~> (pc[1] = "scan" /\ seeds[1] = << >>)
    /\ <>Done(1)

\* A returned call on three points that went through an expansion in which
\* an already visited point was popped.
C22_Witness ==
    /\ Done(1)
    /\ N(1) = 3
    /\ visited[1] = Indices(3)
    /\ \E k \in 1 .. Len(result[1].clusters) :
          /\ Len(result[1].clusters[k]) >= 2
          /\ Near(1, result[1].clusters[k][1], result[1].clusters[k][1])

\* C24: a core point is never noise. At every step of the scan and in the
\* result, no index whose self-inclusive neighbour count reaches minPts is
\* in the noise set or carries the noise mark, and in the result every such
\* index is in a cluster.
C24_CoreNeverNoise ==
    \A r \in Runs :
        pc[r] \in { "scan", "expand", "done" } =>
            LET cores == Cores(r)
            IN  /\ \A i \in cores :
                      /\ i \notin Elements(noise[r])
                      /\ assignments[r][i] # NoiseMark
                /\ Done(r) =>
                      /\ cores \cap NoiseSet(r) = {}
                      /\ cores \subseteq Clustered(r)

\* A result with noise in which a core point with exactly minPts
\* neighbours, itself included, was reached by expansion rather than as a
\* root.
C24_Witness ==
    /\ Done(1)
    /\ minPts[1] >= 2
    /\ NoiseSet(1) # {}
    /\ \E k \in 1 .. Len(result[1].clusters) :
          \E i \in Elements(result[1].clusters[k]) \ { result[1].clusters[k][1] } :
              /\ NeighborCount(1, i) = minPts[1]
              /\ Near(1, i, i)

\* C23: the status messages of a request come in the order: zero or more
\* 'computing', then 'clustering', then 'complete'. 'clustering' is posted
\* at most once and after every 'computing'; 'complete' has a 'clustering'
\* before it; an 'error' may end the sequence at any point instead; and
\* the terminal message is the last message posted for the request.
C23_StatusOrder ==
    \A q \in Runs :
        LET computing == PostedAt(q, { "computing" })
            clustering == PostedAt(q, { "clustering" })
            complete == PostedAt(q, { "complete" })
            terminal == PostedAt(q, { "complete", "error" })
            all == { k \in 1 .. Len(posted) : posted[k].from = q }
        IN  /\ Cardinality(clustering) <= 1
            /\ \A c \in computing, k \in clustering : c < k
            /\ complete # {} => clustering # {}
            /\ \A t \in terminal, k \in all : k <= t

\* A request that went through two 'computing' messages, 'clustering' and
\* 'complete', with the 'ready' of the call at module load posted after
\* its 'clustering'.
C23_Witness ==
    /\ Cardinality(PostedAt(1, { "computing" })) = 2
    /\ PostedAt(1, { "complete" }) # {}
    /\ \E k \in PostedAt(0, { "ready" }) :
          \E c \in PostedAt(1, { "clustering" }) : c < k

\* ---------------------------------------------------------------- C25
\* The page's listener has handled a 'ready' message.
ReadyReceived == \E k \in 1 .. delivered : posted[k].status = "ready"

\* The requests the page has sent and not yet seen the 'complete' or
\* 'error' of.
InFlight ==
    Sent - Cardinality({ q \in Runs :
                           \E k \in PostedAt(q, { "complete", "error" }) :
                              k <= delivered })

\* The listeners of the worker that have begun and not ended.
Handling == { q \in Runs : wpc[q] \notin { "none", "closed" } }

\* The page sends only with 'ready' received and nothing in flight.
SendsWhenReadyAndIdle ==
    Len(inbox') > Len(inbox) => (ReadyReceived /\ InFlight = 0)

\* C25: with the page as the worker's only client, the page sends no
\* compute_embeddings request before it has received 'ready' and none
\* between a send of its own and the receipt of that request's 'complete'
\* or 'error'; so at most one request is in flight, the worker handles at
\* most one at a time, and its getInstance() finds the instance.
C25_PageSendsOneAtATime ==
    /\ [][SendsWhenReadyAndIdle]_vars
    /\ [](/\ InFlight <= 1
          /\ Cardinality(Handling) + Len(inbox) <= 1
          /\ Sent > 0 => ReadyReceived
          /\ \A q \in Handling : wpc[q] = "getInstance" => giPc[q] = "resolved")

\* The page has sent two requests, the second after it had received the
\* first's terminal message, and the worker is handling the second.
C25_Witness ==
    /\ wpc[1] = "closed"
    /\ wpc[2] = "extractor"
    /\ InFlight = 1
    /\ clusterStatus = "computing"

\* ---------------------------------------------------------------- C26
\* lastTexts and lastEmbeddings are both null or both arrays of one length
\* in which lastEmbeddings[i] is the vector computed for lastTexts[i].
LastConsistent ==
    /\ lastTexts.null = lastEmbeddings.null
    /\ ~lastTexts.null =>
          /\ DOMAIN lastEmbeddings.value = Indices(Len(lastTexts.value))
          /\ \A k \in Indices(Len(lastTexts.value)) :
                LET text == lastTexts.value[k + 1]
                IN  /\ text \in DOMAIN vectorCache
                    /\ lastEmbeddings.value[k] = vectorCache[text]
                    /\ lastEmbeddings.value[k] = Embed(text)

\* The texts of request q are, element by element, lastTexts.
EqualsLast(q) ==
    /\ ~lastTexts.null
    /\ texts[q] = lastTexts.value

\* Only the end of a request's embedding changes lastTexts or
\* lastEmbeddings, so a request that ends in 'error' before clustering
\* leaves both as they were.
LastChangedOnlyBySuccess ==
    /\ << lastTexts, lastEmbeddings >>' # << lastTexts, lastEmbeddings >> =>
          \E q \in Runs :
             /\ wpc[q] \in { "getInstance", "extractor" }
             /\ wpc'[q] = "dbscan"
             /\ lastTexts' = ArrayRef(texts[q])
    /\ \A q \in Runs :
          (wpc[q] \in { "getInstance", "extractor" } /\ wpc'[q] = "closed") =>
             UNCHANGED << lastTexts, lastEmbeddings >>

\* A request whose non-blank texts equal lastTexts goes straight to
\* clustering on lastEmbeddings, and no extractor call is made for it.
UnchangedTextsReuse ==
    \A q \in Runs :
       /\ (wpc[q] = "none" /\ wpc'[q] # "none" /\ ~lastTexts.null
              /\ texts'[q] = lastTexts.value) =>
             /\ wpc'[q] = "dbscan"
             /\ embeddings'[q] = lastEmbeddings.value
             /\ points'[q] = lastEmbeddings.value
             /\ UNCHANGED << extractorCalls, lastTexts, lastEmbeddings, vectorCache >>
       /\ wpc[q] = "dbscan" => UNCHANGED << extractorCalls, embeddings[q] >>

\* C26: lastTexts and lastEmbeddings are always both null, or of one length
\* with lastEmbeddings[i] the vector computed for lastTexts[i]; a request
\* that fails during embedding leaves both unchanged; a request whose
\* non-blank texts equal lastTexts reuses lastEmbeddings without calling
\* the extractor.
C26_LastRequestCacheConsistent ==
    /\ []LastConsistent
    /\ [][LastChangedOnlyBySuccess]_vars
    /\ [][UnchangedTextsReuse]_vars

\* The second request has the texts of the first, two of them and
\* different, and was clustered on the saved vectors without a further
\* extractor call; the first request embedded both texts.
C26_Witness ==
    /\ wpc[1] = "closed"
    /\ wpc[2] = "closed"
    /\ Len(texts[2]) = 2
    /\ texts[2][1] # texts[2][2]
    /\ EqualsLast(2)
    /\ texts[1] = texts[2]
    /\ Len(extractorCalls) = 2
    /\ PostedAt(2, { "complete" }) # {}

\* ---------------------------------------------------------------- C27
\* How often text is listed in a 'complete' message, clusters and noise
\* together.
ListedIn(msg, text) ==
    Cardinality({ km \in (1 .. Len(msg.results)) \X (1 .. MaxTexts + 1) :
                    /\ km[2] <= Len(msg.results[km[1]].texts)
                    /\ msg.results[km[1]].texts[km[2]] = text })
    + Occurrences(msg.noise, text)

\* C27: in every 'complete' message the texts of all result clusters
\* together with the noise texts are the request's non-blank lines, each
\* occurrence listed exactly once; blank lines are listed nowhere, and
\* every cluster's size is the number of its texts.
C27_CompleteListsNonBlankTexts ==
    \A q \in Runs : \A k \in PostedAt(q, { "complete" }) :
       LET msg == posted[k]
       IN  /\ \A text \in Texts :
                ListedIn(msg, text) =
                   IF Trim(text) = "" THEN 0
                   ELSE Occurrences(request[q].texts, text)
           /\ \A c \in 1 .. Len(msg.results) :
                msg.results[c].size = Len(msg.results[c].texts)

\* A request with a blank line between two different texts completed with
\* both texts in one cluster; another kind of run lists a noise text.
C27_Witness ==
    /\ request[1].texts = << "a", " ", "b" >>
    /\ \E k \in PostedAt(1, { "complete" }) :
          /\ Len(posted[k].results) = 1
          /\ posted[k].results[1].texts = << "a", "b" >>
          /\ posted[k].noise = << >>

\* ---------------------------------------------------------------- C28
\* The statement as first made: over the worker's lifetime no text is
\* handed to the extractor more than once.
C28_AtMostOncePerText ==
    \A text \in Texts : Occurrences(extractorCalls, text) <= 1

\* The extractor is called only for a text that vectorCache does not hold.
CallsOnlyUncached ==
    extractorCalls' # extractorCalls =>
       \E text \in Texts :
          /\ extractorCalls' = Append(extractorCalls, text)
          /\ text \notin DOMAIN vectorCache
          /\ text \notin DOMAIN vectorCache'

\* A throw of the extractor leaves vectorCache as it was, without the text.
ThrowNotCached ==
    \A q \in Runs :
       (wpc[q] = "extractor" /\ wpc'[q] = "closed") =>
          /\ vectorCache' = vectorCache
          /\ uniqueTexts(texts[q])[uniqueI[q] + 1] \notin DOMAIN vectorCache'

\* vectorCache holds, for texts the extractor was called for, the vector
\* it resolved with; a request calls the extractor at most once per text,
\* and a second call for a text follows a request that ended in 'error';
\* equal texts of a request have equal vectors, filled in together.
CacheSound ==
    /\ \A text \in DOMAIN vectorCache :
          /\ vectorCache[text] = Embed(text)
          /\ Occurrences(extractorCalls, text) >= 1
    /\ \A text \in Texts :
          LET calls == Occurrences(extractorCalls, text)
          IN  /\ calls <= Cardinality({ q \in Runs : wpc[q] # "none"
                                                      /\ text \in Elements(texts[q]) })
              /\ calls >= 2 => PostedAt(1, { "error" }) # {}
    /\ \A q \in Runs :
          /\ \A k \in Indices(Len(texts[q])), l \in Indices(Len(texts[q])) :
                texts[q][k + 1] = texts[q][l + 1] =>
                   /\ k \in DOMAIN embeddings[q] <=> l \in DOMAIN embeddings[q]
                   /\ k \in DOMAIN embeddings[q] => embeddings[q][k] = embeddings[q][l]
          /\ PostedAt(q, { "clustering" }) # {} =>
                DOMAIN embeddings[q] = Indices(Len(texts[q]))

\* C28: with requests handled one at a time, the extractor is never called
\* for a text that vectorCache holds, so it resolves at most once per
\* distinct text, and is called at most once per text within a request; a
\* text whose embedding threw is not cached and is embedded again by a
\* later request that contains it; repeated occurrences of a text within
\* one request receive the same vector.
C28_NeverReembedsCachedText ==
    /\ []CacheSound
    /\ [][CallsOnlyUncached]_vars
    /\ [][ThrowNotCached]_vars

\* The extractor threw for "a" in the first request; the second request
\* holds "a" twice, embedded it again with one call and completed.
C28_Witness ==
    /\ PostedAt(1, { "error" }) # {}
    /\ texts[2] = << "a", "a" >>
    /\ PostedAt(2, { "complete" }) # {}
    /\ Occurrences(extractorCalls, "a") = 2
    /\ "a" \in DOMAIN vectorCache
    /\ embeddings[2][0] = embeddings[2][1]

====
